---- MODULE Spec2Model ----
(***************************************************************************)
(* StorageService of paperwork (src/lib/Services/StorageService.ts): a     *)
(* document store made of two key-value stores, the transaction log        *)
(* (_txStorage) and the index (_idxStorage), with diff-based transactions. *)
(*                                                                         *)
(* Every public method is an async function.  A step of the model is one   *)
(* store access of one call together with the synchronous code around it,  *)
(* up to the next store access.  Calls in different slots interleave at    *)
(* these points only, as on the JavaScript event loop.                     *)
(*                                                                         *)
(* Representation of JavaScript values:                                    *)
(*   - a string that is used as an identifier is the sequence of its       *)
(*     ':'-separated fields; a field is <<"uuid", n>> (a v4 UUID),         *)
(*     <<"num", t>> (the decimal digits of t) or <<"txt", n>> (any other   *)
(*     text), so that split(':') and isUuid are computed, not assumed;     *)
(*   - a text (JSON text, materialized view) is the sequence of its lines; *)
(*   - null / undefined is <<>> and a present value v is <<v>> wherever a  *)
(*     value may be absent.                                                *)
(*                                                                         *)
(* Three specifications:                                                   *)
(*   - Spec: every public method, called on stores that start empty;       *)
(*   - SpecCrash: create, update and destroy on stores that start empty,   *)
(*     with the process stopping while calls are in flight;                *)
(*   - SpecStoredLog: getTxChain, showTx and destroyTx on stores that      *)
(*     already hold a document and a log with arbitrary revisesId links.   *)
(***************************************************************************)
EXTENDS Integers, Sequences, FiniteSets, TLC

\* ------------------------------------------------------------------ bounds
\* Number of calls issued in one behaviour.
MaxCalls == 3
\* Largest value Date.now() takes (the clock starts at 1).
MaxTime == 2
\* Slots for concurrent calls (each holds at most one call in flight).
Procs == {"p1", "p2"}
SlotBefore(q, p) == q = "p1" /\ p = "p2"

VARIABLES
    idxStorage,   \* _idxStorage: key -> StorageServiceIndex
    txStorage,    \* _txStorage:  key -> StorageServiceTransaction
    now,          \* the value Date.now() returned last
    nextUuid,     \* number of uuid() calls made so far
    calls,        \* number of calls issued so far
    frame,        \* per slot: the call in flight
    settled       \* the call the last step settled, as its final frame, if any

vars == <<idxStorage, txStorage, now, nextUuid, calls, frame, settled>>

\* ---------------------------------------------------------------- values
None == <<>>
Some(v) == <<v>>

Create == "create"
Update == "update"
Destroy == "destroy"

\* The messages of the two errors the service throws itself, and the
\* TypeError JavaScript raises on a property read of null.
NotValidUuid == "Not a valid UUID!"
NoteDoesNotExist == "Note does not exist!"
TypeError == "TypeError"

\* The value `false`, which applyPatch returns when a patch does not apply:
\* a text no JSON.stringify produces.
False == << <<"false">> >>

\* uuid(): the n-th UUID generated.
UuidField(n) == <<"uuid", n>>
\* A string holding just a UUID.
UuidStr(n) == << UuidField(n) >>
\* `${now}:${uuid()}`
TimestampedId(t, n) == << <<"num", t>>, UuidField(n) >>

\* id.split(':'): the identifier is kept as its fields.
Split(id) == id

\* isUuid(value) of uuidv4 on one ':'-free field; undefined (None) is no UUID.
IsUuidField(optField) == optField # None /\ optField[1][1] = "uuid"

\* isUuid(id) on a whole string: a UUID contains no ':'.
IsUuid(id) == Len(Split(id)) = 1 /\ IsUuidField(Some(id[1]))

\* Storage.get(key): null when the key is absent.
StorageGet(store, key) == IF key \in DOMAIN store THEN Some(store[key]) ELSE None

\* Storage.set(key, value)
StorageSet(store, key, value) ==
    [k \in DOMAIN store \cup {key} |-> IF k = key THEN value ELSE store[k]]

\* ---------------------------------------------------------- JSON and diff
\* The objects callers pass, each as the sequence of its members:
\* {}, {"title": "a"} and {"title": "b"}.
Data == { <<>>, << <<"title", "a">> >>, << <<"title", "b">> >> }

\* JSON.stringify(data, null, 2): one line per member between the braces,
\* members in insertion order, "{}" for the empty object.
JsonStringify(data) ==
    IF data = <<>>
    THEN << <<"{}">> >>
    ELSE << <<"{">> >>
         \o [i \in 1..Len(data) |->
               <<"  ", data[i][1], data[i][2], IF i < Len(data) THEN "," ELSE "">>]
         \o << <<"}">> >>

Min(a, b) == IF a <= b THEN a ELSE b

\* Length of the longest common prefix of two texts.
CommonPrefix(a, b) ==
    LET n == Min(Len(a), Len(b))
        S == {k \in 0..n : \A i \in 1..k : a[i] = b[i]}
    IN  CHOOSE k \in S : \A j \in S : j <= k

\* Length of the longest common suffix that does not overlap the first p lines.
CommonSuffix(a, b, p) ==
    LET n == Min(Len(a), Len(b)) - p
        S == {k \in 0..n : \A i \in 1..k : a[Len(a) - k + i] = b[Len(b) - k + i]}
    IN  CHOOSE k \in S : \A j \in S : j <= k

\* createPatch(fileName, oldStr, newStr) of diff: the lines removed and the
\* lines added at an offset; unchanged leading and trailing lines are not
\* part of the change.
CreatePatch(fileName, oldStr, newStr) ==
    LET p == CommonPrefix(oldStr, newStr)
        s == CommonSuffix(oldStr, newStr, p)
    IN  [fileName |-> fileName,
         start    |-> p,
         del      |-> SubSeq(oldStr, p + 1, Len(oldStr) - s),
         add      |-> SubSeq(newStr, p + 1, Len(newStr) - s)]

\* applyPatch(source, patch) of diff: the removed lines must be found at the
\* patch's offset; otherwise the result is false.
ApplyPatch(source, patch) ==
    LET e == patch.start + Len(patch.del)
    IN  IF e <= Len(source) /\ SubSeq(source, patch.start + 1, e) = patch.del
        THEN SubSeq(source, 1, patch.start) \o patch.add
             \o SubSeq(source, e + 1, Len(source))
        ELSE False

\* _materialize that leaves the view as it was.
MaterializeMut(view, diff) == view

\* StorageService._materialize
Materialize(view, diff) == ApplyPatch(view, diff)

\* ------------------------------------------------------- records (l.12-28)
\* The StorageServiceTransaction createTx builds.
CreateTxRecord(id, staticId, diff, t) ==
    [id        |-> id,
     type      |-> Create,
     staticId  |-> staticId,
     diff      |-> diff,
     revisesId |-> None,
     timestamp |-> t]

\* updateTx that takes the id of the transaction it revises for staticId.
UpdateTxRecordStaticIdOfTx(revisionId, existingEntry, diff, id, t) ==
    [id        |-> revisionId,
     type      |-> Update,
     staticId  |-> id,
     diff      |-> diff,
     revisesId |-> Some(id),
     timestamp |-> t]

\* The StorageServiceTransaction updateTx builds; existingEntry is the
\* transaction stored under `id`.
UpdateTxRecord(revisionId, existingEntry, diff, id, t) ==
    [id        |-> revisionId,
     type      |-> Update,
     staticId  |-> existingEntry.staticId,
     diff      |-> diff,
     revisesId |-> Some(id),
     timestamp |-> t]

\* The StorageServiceIndex create builds.
CreateIdx(id, txId, t, diff) ==
    [id               |-> id,
     latestTxId       |-> txId,
     createdAt        |-> t,
     updatedAt        |-> t,
     deletedAt        |-> None,
     materializedView |-> Materialize(<<>>, diff)]

\* update that keeps the materialized view it read.
UpdatedIdxMut(id, txId, idx, diff, t) ==
    [id               |-> id,
     latestTxId       |-> txId,
     materializedView |-> idx.materializedView,
     createdAt        |-> idx.createdAt,
     updatedAt        |-> t,
     deletedAt        |-> None]

\* update that leaves latestTxId at the head it read.
UpdatedIdxKeepsHead(id, txId, idx, diff, t) ==
    [id               |-> id,
     latestTxId       |-> idx.latestTxId,
     materializedView |-> Materialize(idx.materializedView, diff),
     createdAt        |-> idx.createdAt,
     updatedAt        |-> t,
     deletedAt        |-> None]

\* The StorageServiceIndex update builds from the entry it has read.
UpdatedIdx(id, txId, idx, diff, t) ==
    [id               |-> id,
     latestTxId       |-> txId,
     materializedView |-> Materialize(idx.materializedView, diff),
     createdAt        |-> idx.createdAt,
     updatedAt        |-> t,
     deletedAt        |-> None]

\* destroy that also stamps updatedAt.
DestroyedIdxMut(idx, t) == [idx EXCEPT !.deletedAt = Some(t), !.updatedAt = t + 1]

\* merge(idx, {'deletedAt': new Date()}) in destroy.
DestroyedIdx(idx, t) == [idx EXCEPT !.deletedAt = Some(t)]

\* ------------------------------------------------------ checks (l.95-118)
\* show that does not look at deletedAt.
ShowRejectsMut(optIdx) == optIdx = None

\* show's test on what _idxStorage.get returned: not an object, null, or
\* soft-deleted.
ShowRejects(optIdx) == optIdx = None \/ optIdx[1].deletedAt # None

\* showTx's test: the field after the first ':' must be a UUID.
ShowTxRejects(id) ==
    LET parts  == Split(id)
        idUuid == IF Len(parts) >= 2 THEN Some(parts[2]) ELSE None
    IN  ~IsUuidField(idUuid)

\* ----------------------------------------------------------------- frames
Ok(v) == [ok |-> TRUE, val |-> Some(v), err |-> ""]
Err(m) == [ok |-> FALSE, val |-> None, err |-> m]

NoAccess == [idxGet |-> 0, idxSet |-> 0, txGet |-> 0, txSet |-> 0]

\* A slot with no call in flight.
IdleFrame ==
    [op    |-> "none",  \* the method called
     pc    |-> "idle",  \* the store access the call waits for; "done" once settled
     id    |-> None,    \* the id argument (create: the id it allocated)
     ids   |-> <<>>,    \* showAll's argument
     data  |-> None,    \* the data argument
     t     |-> 0,       \* `now` read by create
     idx   |-> None,    \* the index entry show returned
     diff  |-> None,    \* the patch computed
     txId  |-> None,    \* createTx / updateTx: the id of the transaction written
     cur   |-> None,    \* the transaction id the pending _txStorage.get asks for
     tx    |-> None,    \* the transaction the pending _txStorage.set writes
     nidx  |-> None,    \* the index entry the pending _idxStorage.set writes
     chain |-> <<>>,    \* _followTxChainLinks: the links read so far, head first
     ret   |-> None,    \* the settled promise: Ok(value) or Err(message)
     found |-> <<>>,    \* showAll: the entries its shows have returned so far
     acc   |-> NoAccess]   \* store accesses this call has issued

Free(p) == frame[p].pc = "idle"

\* Callers are interchangeable: a new call takes the first free slot.
CanCall(p) ==
    /\ Free(p)
    /\ calls < MaxCalls
    /\ \A q \in Procs : Free(q) => ~SlotBefore(q, p)

Get(f, store) ==
    IF store = "idx" THEN [f EXCEPT !.acc.idxGet = @ + 1]
                     ELSE [f EXCEPT !.acc.txGet = @ + 1]

Put(f, store) ==
    IF store = "idx" THEN [f EXCEPT !.acc.idxSet = @ + 1]
                     ELSE [f EXCEPT !.acc.txSet = @ + 1]

Settle(f, result) == [f EXCEPT !.pc = "done", !.ret = Some(result)]

\* The identifiers a caller may pass.  "not-a-uuid", "x:<uuid>", a UUID that
\* names nothing and a "<timestamp>:<uuid>" that names nothing:
NotAUuid == << <<"txt", 0>> >>
TxtColonUuid == << <<"txt", 0>>, UuidField(1) >>
\* to the methods that take a document id: a key of the index,
DocArgIds == DOMAIN idxStorage \cup {NotAUuid, UuidStr(0)}
\* to showTx: a key of the log.
TxArgIds ==
    DOMAIN txStorage \cup {NotAUuid, TxtColonUuid, TimestampedId(1, 0)}

\* ------------------------------------------------------------------- Init
Init ==
    /\ idxStorage = <<>>
    /\ txStorage = <<>>
    /\ now = 1
    /\ nextUuid = 0
    /\ calls = 0
    /\ frame = [p \in Procs |-> IdleFrame]
    /\ settled = None

\* The call in slot p moves on to frame f; a settled call leaves its slot,
\* and its outcome is what the caller now holds.
Step(p, f) ==
    /\ frame' = [frame EXCEPT ![p] = IF f.pc = "done" THEN IdleFrame ELSE f]
    /\ settled' = IF f.pc = "done" THEN Some(f) ELSE None

\* Date.now(): the values a read of the clock may return, given the last
\* value read.  The clock never runs backwards.
DateNow == {t \in now..(now + 1) : t <= MaxTime}

\* The start of a call that begins with show(id): the id is validated and,
\* if it is a UUID, _idxStorage.get(id) is issued.
BeginShow(f, id) ==
    IF ~IsUuid(id)
    THEN Settle(f, Err(NotValidUuid))
    ELSE [Get(f, "idx") EXCEPT !.pc = "show"]

\* The start of showTx(id) inside a call: the id is validated and, if it
\* passes, _txStorage.get(id) is issued.
BeginShowTx(f, id) ==
    IF ShowTxRejects(id)
    THEN Settle(f, Err(NotValidUuid))
    ELSE [Get(f, "tx") EXCEPT !.pc = "showTx", !.cur = Some(id)]

\* A call is one step of the model from its start to the return of its
\* first store access (the code before that access only validates the
\* arguments), and one step per later store access: the access together
\* with the synchronous code that follows it, up to the next access.
\* create reads the clock and draws its ids before its first access, so its
\* start is a step of its own.

\* ---------------------------------------------------------- show (l.95-109)
\* What show does with what _idxStorage.get returned.
ShowReturns(f, idx) ==
    IF ShowRejects(idx)
    THEN Settle(f, Err(NoteDoesNotExist))
    ELSE Settle([f EXCEPT !.idx = idx], Ok(idx[1]))

Show(p, id) ==
    /\ CanCall(p)
    /\ LET f == BeginShow([IdleFrame EXCEPT !.op = "show", !.id = Some(id)], id)
       IN  Step(p, IF f.pc = "done" THEN f
                   ELSE ShowReturns(f, StorageGet(idxStorage, id)))
    /\ calls' = calls + 1
    /\ UNCHANGED <<idxStorage, txStorage, now, nextUuid>>

\* ------------------------------------------------------ create (l.120-157)
CreateCall(p, data, t) ==
    /\ CanCall(p)
    /\ now' = t
    /\ LET id      == UuidStr(nextUuid + 1)
           dataStr == JsonStringify(data)
           diff    == CreatePatch(id, <<>>, dataStr)
           txId    == TimestampedId(t, nextUuid + 2)
       IN  Step(p,
               [IdleFrame EXCEPT !.op = "create", !.pc = "createTx_set",
                                 !.id = Some(id), !.data = Some(data), !.t = t,
                                 !.diff = Some(diff), !.txId = Some(txId),
                                 !.tx = Some(CreateTxRecord(txId, id, diff, t)),
                                 !.acc.txSet = 1])
    /\ nextUuid' = nextUuid + 2
    /\ calls' = calls + 1
    /\ UNCHANGED <<idxStorage, txStorage>>

\* createTx that does not wait for its set: create goes on to its index
\* write with the log write not yet done.
CreateTxSetNotAwaited(p) ==
    /\ frame[p].pc = "createTx_set"
    /\ LET f == frame[p]
       IN  Step(p,
               [Put(f, "idx") EXCEPT
                   !.pc = "create_set", !.tx = None,
                   !.nidx = Some(CreateIdx(f.id[1], f.txId[1], f.t, f.diff[1]))])
    /\ UNCHANGED <<idxStorage, txStorage, now, nextUuid, calls>>

CreateTxSet(p) ==
    /\ frame[p].pc = "createTx_set"
    /\ LET f == frame[p]
       IN  /\ txStorage' = StorageSet(txStorage, f.txId[1], f.tx[1])
           /\ Step(p,
                  [Put(f, "idx") EXCEPT
                      !.pc = "create_set", !.tx = None,
                      !.nidx = Some(CreateIdx(f.id[1], f.txId[1], f.t, f.diff[1]))])
    /\ UNCHANGED <<idxStorage, now, nextUuid, calls>>

CreateIdxSet(p) ==
    /\ frame[p].pc = "create_set"
    /\ LET f == frame[p]
       IN  /\ idxStorage' = StorageSet(idxStorage, f.id[1], f.nidx[1])
           /\ Step(p, Settle([f EXCEPT !.nidx = None], Ok(f.id[1])))
    /\ UNCHANGED <<txStorage, now, nextUuid, calls>>

\* ------------------------------------------------------ update (l.159-195)
\* show returns; the patch is computed and updateTx begins with showTx.
UpdateShowReturns(f, idx) ==
    IF ShowRejects(idx)
    THEN Settle(f, Err(NoteDoesNotExist))
    ELSE LET dataStr == JsonStringify(f.data[1])
             diff    == CreatePatch(f.id[1], idx[1].materializedView, dataStr)
         IN  BeginShowTx([f EXCEPT !.idx = idx, !.diff = Some(diff)],
                         idx[1].latestTxId)

\* update that writes the index entry before it appends to the log.
UpdateCallMut(p, id, data) ==
    /\ CanCall(p)
    /\ LET f   == BeginShow([IdleFrame EXCEPT !.op = "update", !.id = Some(id),
                                              !.data = Some(data)], id)
           idx == StorageGet(idxStorage, id)
           g   == IF f.pc = "done" THEN f ELSE UpdateShowReturns(f, idx)
       IN  /\ Step(p, g)
           /\ idxStorage' =
                  IF g.diff = None THEN idxStorage
                  ELSE StorageSet(idxStorage, id,
                                  UpdatedIdx(id, idx[1].latestTxId, idx[1], g.diff[1], now))
    /\ calls' = calls + 1
    /\ UNCHANGED <<txStorage, now, nextUuid>>

UpdateCall(p, id, data) ==
    /\ CanCall(p)
    /\ LET f == BeginShow([IdleFrame EXCEPT !.op = "update", !.id = Some(id),
                                            !.data = Some(data)], id)
       IN  Step(p, IF f.pc = "done" THEN f
                   ELSE UpdateShowReturns(f, StorageGet(idxStorage, id)))
    /\ calls' = calls + 1
    /\ UNCHANGED <<idxStorage, txStorage, now, nextUuid>>

\* updateTx: showTx returns, the revision gets its id and is sent to the log.
\* The clock is read only if existingEntry.staticId did not throw.
UpdateTxShowTxGet(p, t) ==
    /\ frame[p].op = "update" /\ frame[p].pc = "showTx"
    /\ now' = t
    /\ LET f             == frame[p]
           existingEntry == StorageGet(txStorage, f.cur[1])
           revisionId    == UuidStr(nextUuid + 1)
       IN  /\ existingEntry = None => t = now
           /\ Step(p,
                  IF existingEntry = None
                  THEN Settle(f, Err(TypeError))
                  ELSE [Put(f, "tx") EXCEPT
                           !.pc = "updateTx_set", !.txId = Some(revisionId),
                           !.tx = Some(UpdateTxRecord(revisionId, existingEntry[1],
                                                      f.diff[1], f.cur[1], t))])
    /\ nextUuid' = nextUuid + 1
    /\ UNCHANGED <<idxStorage, txStorage, calls>>

\* updateTx that stores the revision under the id it revises.
UpdateTxSetOverwrites(p, t) ==
    /\ frame[p].pc = "updateTx_set"
    /\ now' = t
    /\ LET f == frame[p]
       IN  /\ txStorage' = StorageSet(txStorage, f.cur[1], f.tx[1])
           /\ Step(p,
                  [Put(f, "idx") EXCEPT
                      !.pc = "update_set", !.tx = None,
                      !.nidx = Some(UpdatedIdx(f.id[1], f.txId[1], f.idx[1],
                                               f.diff[1], t))])
    /\ UNCHANGED <<idxStorage, nextUuid, calls>>

UpdateTxSet(p, t) ==
    /\ frame[p].pc = "updateTx_set"
    /\ now' = t
    /\ LET f == frame[p]
       IN  /\ txStorage' = StorageSet(txStorage, f.txId[1], f.tx[1])
           /\ Step(p,
                  [Put(f, "idx") EXCEPT
                      !.pc = "update_set", !.tx = None,
                      !.nidx = Some(UpdatedIdx(f.id[1], f.txId[1], f.idx[1],
                                               f.diff[1], t))])
    /\ UNCHANGED <<idxStorage, nextUuid, calls>>

\* The value update returns.
UpdateReturnValue(f) == f.id[1]

UpdateIdxSet(p) ==
    /\ frame[p].pc = "update_set"
    /\ LET f == frame[p]
       IN  /\ idxStorage' = StorageSet(idxStorage, f.id[1], f.nidx[1])
           /\ Step(p, Settle([f EXCEPT !.nidx = None], Ok(UpdateReturnValue(f))))
    /\ UNCHANGED <<txStorage, now, nextUuid, calls>>

\* ----------------------------------------------------- destroy (l.197-206)
\* show returns; the entry read is merged with the deletion date and sent
\* to the index.
DestroyShowReturns(f, idx, t) ==
    IF ShowRejects(idx)
    THEN Settle(f, Err(NoteDoesNotExist))
    ELSE [Put(f, "idx") EXCEPT
             !.pc = "destroy_set", !.idx = idx,
             !.nidx = Some(DestroyedIdx(idx[1], t))]

\* The clock is read only if show did not throw.
DestroyCall(p, id, t) ==
    /\ CanCall(p)
    /\ now' = t
    /\ LET f == BeginShow([IdleFrame EXCEPT !.op = "destroy", !.id = Some(id)], id)
           g == IF f.pc = "done" THEN f
                ELSE DestroyShowReturns(f, StorageGet(idxStorage, id), t)
       IN  /\ g.pc = "done" => t = now
           /\ Step(p, g)
    /\ calls' = calls + 1
    /\ UNCHANGED <<idxStorage, txStorage, nextUuid>>

DestroyIdxSet(p) ==
    /\ frame[p].pc = "destroy_set"
    /\ LET f == frame[p]
       IN  /\ idxStorage' = StorageSet(idxStorage, f.id[1], f.nidx[1])
           /\ Step(p, Settle([f EXCEPT !.nidx = None], Ok(f.id[1])))
    /\ UNCHANGED <<txStorage, now, nextUuid, calls>>

\* ------------------------------------------------------ showTx (l.111-118)
\* showTx returns whatever _txStorage.get gave: the transaction or null.
ShowTxReturns(f, tx) == Settle(f, Ok(tx))

ShowTxCall(p, id) ==
    /\ CanCall(p)
    /\ LET f == BeginShowTx([IdleFrame EXCEPT !.op = "showTx", !.id = Some(id)], id)
       IN  Step(p, IF f.pc = "done" THEN f
                   ELSE ShowTxReturns(f, StorageGet(txStorage, id)))
    /\ calls' = calls + 1
    /\ UNCHANGED <<idxStorage, txStorage, now, nextUuid>>

\* --------------------------------------------------- getTxChain (l.66-80)
RECURSIVE Reverse(_)
Reverse(s) == IF s = <<>> THEN <<>> ELSE Append(Reverse(Tail(s)), Head(s))

\* show returns and _followTxChainLinks(idx.latestTxId) begins with showTx.
GetTxChainShowReturns(f, idx) ==
    IF ShowRejects(idx)
    THEN Settle(f, Err(NoteDoesNotExist))
    ELSE BeginShowTx([f EXCEPT !.idx = idx], idx[1].latestTxId)

GetTxChainCall(p, id) ==
    /\ CanCall(p)
    /\ LET f == BeginShow([IdleFrame EXCEPT !.op = "getTxChain", !.id = Some(id)], id)
       IN  Step(p, IF f.pc = "done" THEN f
                   ELSE GetTxChainShowReturns(f, StorageGet(idxStorage, id)))
    /\ calls' = calls + 1
    /\ UNCHANGED <<idxStorage, txStorage, now, nextUuid>>

\* One level of _followTxChainLinks: showTx(txId) has returned txLink; the
\* walk recurses on txLink.revisesId, or, at the root, every level pushes
\* its link on the way back, the root's first.
FollowTxChainLinksReturns(f, txLink) ==
    IF txLink = None
    THEN Settle(f, Err(TypeError))
    ELSE LET g == [f EXCEPT !.chain = Append(@, txLink[1])]
         IN  IF txLink[1].revisesId # None
             THEN BeginShowTx(g, txLink[1].revisesId[1])
             ELSE Settle(g, Ok(Reverse(g.chain)))

FollowTxChainLinksGet(p) ==
    /\ frame[p].op = "getTxChain" /\ frame[p].pc = "showTx"
    /\ Step(p, FollowTxChainLinksReturns(frame[p],
                                         StorageGet(txStorage, frame[p].cur[1])))
    /\ UNCHANGED <<idxStorage, txStorage, now, nextUuid, calls>>

\* ------------------------------------------------------- showAll (l.90-93)
\* One show of showAll returns.
ShowAllReturns(f, idx) ==
    IF ShowRejects(idx)
    THEN Settle(f, Err(NoteDoesNotExist))
    ELSE LET g == [f EXCEPT !.found = Append(@, idx[1])]
         IN  IF Len(g.found) = Len(f.ids) THEN Settle(g, Ok(g.found)) ELSE g

\* ids.map(show): every show validates its id and, if it is a UUID, issues
\* its get, before any get returns.  Promise.all rejects with the first
\* rejection, which is the validation error when some id is no UUID.
ShowAllCall(p, ids) ==
    /\ CanCall(p)
    /\ LET valid == {i \in 1..Len(ids) : IsUuid(ids[i])}
           f     == [IdleFrame EXCEPT !.op = "showAll", !.ids = ids,
                                      !.pc = "showAll",
                                      !.acc.idxGet = Cardinality(valid)]
       IN  Step(p, IF Cardinality(valid) < Len(ids)
                   THEN Settle(f, Err(NotValidUuid))
                   ELSE ShowAllReturns(f, StorageGet(idxStorage, ids[1])))
    /\ calls' = calls + 1
    /\ UNCHANGED <<idxStorage, txStorage, now, nextUuid>>

\* The next get returns to its show.
ShowAllGet(p) ==
    /\ frame[p].pc = "showAll"
    /\ LET f == frame[p]
       IN  Step(p, ShowAllReturns(f, StorageGet(idxStorage, f.ids[Len(f.found) + 1])))
    /\ UNCHANGED <<idxStorage, txStorage, now, nextUuid, calls>>

\* The lists a caller passes to showAll.
ShowAllArgs ==
    {<<a, b>> : a \in DOMAIN idxStorage \cup {UuidStr(0)},
                b \in DOMAIN idxStorage \cup {NotAUuid}}

\* ---------------------------------------------------- destroyTx (l.208-210)
\* destroyTx has no await and touches no store: it returns its argument.
DestroyTxCall(p, id) ==
    /\ CanCall(p)
    /\ Step(p, Settle([IdleFrame EXCEPT !.op = "destroyTx", !.id = Some(id)], Ok(id)))
    /\ calls' = calls + 1
    /\ UNCHANGED <<idxStorage, txStorage, now, nextUuid>>

\* The ids a caller passes to destroyTx: a key of the log, or "not-a-uuid".
DestroyTxArgIds == DOMAIN txStorage \cup {NotAUuid}

\* ------------------------------------------------------------------- Next
Next ==
    \E p \in Procs :
        \/ \E id \in DocArgIds : Show(p, id)
        \/ \E data \in Data, t \in DateNow : CreateCall(p, data, t)
        \/ CreateTxSet(p)
        \/ CreateIdxSet(p)
        \/ \E id \in DocArgIds, data \in Data : UpdateCall(p, id, data)
        \/ \E t \in DateNow : UpdateTxShowTxGet(p, t)
        \/ \E t \in DateNow : UpdateTxSet(p, t)
        \/ UpdateIdxSet(p)
        \/ \E id \in DocArgIds, t \in DateNow : DestroyCall(p, id, t)
        \/ DestroyIdxSet(p)
        \/ \E id \in TxArgIds : ShowTxCall(p, id)
        \/ \E id \in DocArgIds : GetTxChainCall(p, id)
        \/ FollowTxChainLinksGet(p)
        \/ \E ids \in ShowAllArgs : ShowAllCall(p, ids)
        \/ ShowAllGet(p)
        \/ \E id \in DestroyTxArgIds : DestroyTxCall(p, id)

Spec == Init /\ [][Next]_vars

\* ------------------------------------------- calls run without interleaving
\* What a call started in the current state returns when no other call
\* runs before it settles.

\* show(id), on an index store
ReadIn(idxStore, id) ==
    LET f == BeginShow([IdleFrame EXCEPT !.op = "show", !.id = Some(id)], id)
    IN  IF f.pc = "done" THEN f.ret[1]
        ELSE ShowReturns(f, StorageGet(idxStore, id)).ret[1]

Read(id) == ReadIn(idxStorage, id)

\* showTx(id), on a log
ReadTransactionIn(txStore, id) ==
    LET f == BeginShowTx([IdleFrame EXCEPT !.op = "showTx", !.id = Some(id)], id)
    IN  IF f.pc = "done" THEN f.ret[1]
        ELSE ShowTxReturns(f, StorageGet(txStore, id)).ret[1]

ReadTransaction(id) == ReadTransactionIn(txStorage, id)

\* _followTxChainLinks run to its end; a walk longer than the log has
\* entered a cycle and never returns.
RECURSIVE FollowTxChainLinks(_, _)
FollowTxChainLinks(f, fuel) ==
    IF f.pc = "done" THEN f.ret[1]
    ELSE IF fuel = 0 THEN Err("never returns")
    ELSE FollowTxChainLinks(
             FollowTxChainLinksReturns(f, StorageGet(txStorage, f.cur[1])), fuel - 1)

\* getTxChain(id)
ReadChain(id) ==
    LET f == BeginShow([IdleFrame EXCEPT !.op = "getTxChain", !.id = Some(id)], id)
        g == IF f.pc = "done" THEN f
             ELSE GetTxChainShowReturns(f, StorageGet(idxStorage, id))
    IN  FollowTxChainLinks(g, Cardinality(DOMAIN txStorage) + 1)

\* The spec's names for the two errors.
InvalidIdentifier == Err(NotValidUuid)
NotFound == Err(NoteDoesNotExist)

\* The call the last step settled is a call of `op`.
Settled(op) == settled # None /\ settled[1].op = op

\* The call the last step settled is a call of `op` that succeeded.
Succeeded(op) == Settled(op) /\ settled[1].ret[1].ok

\* The ids of the log's transactions reached from txId by revisesId links
\* (the log as a graph; no validation of ids).
RECURSIVE Ancestors(_, _)
Ancestors(txId, fuel) ==
    IF txId \notin DOMAIN txStorage \/ fuel = 0 THEN {}
    ELSE {txId} \cup
         (IF txStorage[txId].revisesId = None THEN {}
          ELSE Ancestors(txStorage[txId].revisesId[1], fuel - 1))

ReachableFrom(txId) == Ancestors(txId, Cardinality(DOMAIN txStorage))

\* The records of the log from the root to txId, root first, by revisesId
\* links (the log as a graph); the walk stops at a link to nothing.
RECURSIVE ChainTo(_, _)
ChainTo(txId, fuel) ==
    IF txId \notin DOMAIN txStorage \/ fuel = 0 THEN <<>>
    ELSE LET tx == txStorage[txId]
         IN  IF tx.revisesId = None THEN <<tx>>
             ELSE Append(ChainTo(tx.revisesId[1], fuel - 1), tx)

ChainOf(txId) == ChainTo(txId, Cardinality(DOMAIN txStorage) + 1)

\* The diffs of a chain applied in order, starting from `view`.
RECURSIVE Replay(_, _)
Replay(view, chain) ==
    IF chain = <<>> THEN view
    ELSE Replay(Materialize(view, Head(chain).diff), Tail(chain))

\* ------------------------------------------------------------ a crash
\* The process stops with calls in flight: what the stores hold stays
\* (they are persistent, l.36-52), every pending call is gone, and the
\* service is opened again on the same stores.
Crash ==
    /\ \E p \in Procs : ~Free(p)
    /\ frame' = [p \in Procs |-> IdleFrame]
    /\ settled' = None
    /\ UNCHANGED <<idxStorage, txStorage, now, nextUuid, calls>>

\* The calls that write, their steps, and the crash.
NextCrash ==
    \/ \E p \in Procs :
           \/ \E data \in Data, t \in DateNow : CreateCall(p, data, t)
           \/ CreateTxSet(p)
           \/ CreateIdxSet(p)
           \/ \E id \in DocArgIds, data \in Data : UpdateCall(p, id, data)
           \/ \E t \in DateNow : UpdateTxShowTxGet(p, t)
           \/ \E t \in DateNow : UpdateTxSet(p, t)
           \/ UpdateIdxSet(p)
           \/ \E id \in DocArgIds, t \in DateNow : DestroyCall(p, id, t)
           \/ DestroyIdxSet(p)
    \/ Crash

SpecCrash == Init /\ [][NextCrash]_vars

\* ------------------------------------- a service opened on a stored log
\* The constructor opens the two stores by name and keeps what they hold
\* (l.36-52): the log a service starts with is whatever is stored under
\* that name.  Here the stores hold one live document and a log of two
\* records with any revisesId links: to nothing, to the other record, to
\* itself, or to an id the log has no record for.
MaxWalk == 3

StoredDocId == UuidStr(0)
StoredTxIds == {TimestampedId(1, 1), TimestampedId(1, 2)}
MissingTxId == TimestampedId(1, 3)

StoredTx(k, rev) ==
    [id        |-> k,
     type      |-> IF rev = None THEN Create ELSE Update,
     staticId  |-> StoredDocId,
     diff      |-> CreatePatch(StoredDocId, <<>>, JsonStringify(<<>>)),
     revisesId |-> rev,
     timestamp |-> 1]

StoredLogs ==
    LET Links == {None} \cup {Some(j) : j \in StoredTxIds \cup {MissingTxId}}
    IN  {[k \in StoredTxIds |-> StoredTx(k, rev[k])] : rev \in [StoredTxIds -> Links]}

StoredIdx(txId) ==
    [id               |-> StoredDocId,
     latestTxId       |-> txId,
     createdAt        |-> 1,
     updatedAt        |-> 1,
     deletedAt        |-> None,
     materializedView |-> JsonStringify(<<>>)]

InitStoredLog ==
    /\ txStorage \in StoredLogs
    /\ \E txId \in StoredTxIds :
           idxStorage = [k \in {StoredDocId} |-> StoredIdx(txId)]
    /\ now = 1
    /\ nextUuid = 3
    /\ calls = 0
    /\ frame = [p \in Procs |-> IdleFrame]
    /\ settled = None

\* One level of the walk, for walks of at most MaxWalk links read.
WalkStep(p) ==
    /\ Len(frame[p].chain) < MaxWalk
    /\ FollowTxChainLinksGet(p)

NextStoredLog ==
    \E p \in Procs :
        \/ \E id \in DOMAIN idxStorage : GetTxChainCall(p, id)
        \/ \E id \in DOMAIN txStorage \cup {MissingTxId} : ShowTxCall(p, id)
        \/ WalkStep(p)
        \/ \E id \in DestroyTxArgIds : DestroyTxCall(p, id)

SpecStoredLog == InitStoredLog /\ [][NextStoredLog]_vars

\* ----------------------------------------------------------------- claims

\* C1: after update(id, data2) completes, read(id).materializedView is the
\* canonical text of data2, and readChain(id) succeeds with a chain one
\* longer than the chain readChain(id) gave just before the update (the
\* chain of the entry the update read).
C1_UpdateExtendsChain ==
    Succeeded("update") =>
        LET f      == settled[1]
            id     == f.id[1]
            before == FollowTxChainLinks(
                          BeginShowTx([IdleFrame EXCEPT !.op = "getTxChain"],
                                      f.idx[1].latestTxId),
                          Cardinality(DOMAIN txStorage) + 1)
        IN  /\ Read(id).ok
            /\ Read(id).val[1].materializedView = JsonStringify(f.data[1])
            /\ ReadChain(id).ok
            /\ before.ok
            /\ Len(ReadChain(id).val[1]) = Len(before.val[1]) + 1

\* C2: update on a live document always succeeds: a call of update whose
\* show found a live entry does not fail.
C2_UpdateOnLiveSucceeds ==
    (Settled("update") /\ settled[1].idx # None) => settled[1].ret[1].ok

\* C3: for every live document readChain(id) returns a chain that starts
\* with the Create transaction with revisesId = null, ends with the
\* transaction named by latestTxId, and in which each later element revises
\* the element before it.
C3_ChainRootFirst ==
    \A id \in DOMAIN idxStorage :
        idxStorage[id].deletedAt = None =>
            /\ ReadChain(id).ok
            /\ LET chain == ReadChain(id).val[1]
               IN  /\ chain # <<>>
                   /\ chain[1].type = Create /\ chain[1].revisesId = None
                   /\ chain[Len(chain)].id = idxStorage[id].latestTxId
                   /\ \A i \in 2..Len(chain) :
                          chain[i].revisesId = Some(chain[i - 1].id)

\* C4: create(data) returns a fresh document id; read(id) then succeeds with
\* materializedView the canonical text of data, deletedAt = null and
\* createdAt = updatedAt, and latestTxId names a Create transaction of the
\* log with revisesId = null and staticId = id.
C4_CreateThenRead ==
    [][\A p \in Procs :
          (frame[p].pc = "create_set" /\ frame'[p].pc = "idle") =>
              LET f   == frame[p]
                  id  == f.id[1]
                  r   == ReadIn(idxStorage', id)
                  idx == r.val[1]
              IN  /\ settled' # None /\ settled'[1].ret[1] = Ok(id)
                  /\ id \notin DOMAIN idxStorage
                  /\ r.ok
                  /\ idx.materializedView = JsonStringify(f.data[1])
                  /\ idx.materializedView = ApplyPatch(<<>>, f.diff[1])
                  /\ idx.deletedAt = None
                  /\ idx.createdAt = idx.updatedAt
                  /\ idx.latestTxId \in DOMAIN txStorage'
                  /\ txStorage'[idx.latestTxId].type = Create
                  /\ txStorage'[idx.latestTxId].revisesId = None
                  /\ txStorage'[idx.latestTxId].staticId = id]_vars

\* C4's case: a create of a non-empty document has returned.
C4_Witness == Succeeded("create") /\ settled[1].data[1] # <<>>

\* C5: update returns the id of the transaction it appended, the value it
\* stored as latestTxId.
C5_UpdateReturnsTxId ==
    Succeeded("update") =>
        /\ settled[1].ret[1].val[1] = settled[1].txId[1]
        /\ settled[1].ret[1].val[1] = idxStorage[settled[1].id[1]].latestTxId

\* The methods that begin with show(id).
ShowFirst == {"show", "update", "destroy", "getTxChain"}

\* The call a step has started, when it started one: the call it settled at
\* once, or else the call now in the slot that was free.
Started ==
    IF settled' # None
    THEN settled'[1]
    ELSE frame'[CHOOSE p \in Procs : frame[p].pc = "idle" /\ frame'[p].pc # "idle"]

\* C6: on a document whose index entry is soft-deleted, read, update,
\* destroy and readChain fail NotFound, and the failed call writes nothing
\* to either store.
C6_DeletedIsNotFound ==
    [][(/\ calls' = calls + 1
        /\ Started.op \in ShowFirst
        /\ Started.id[1] \in DOMAIN idxStorage
        /\ idxStorage[Started.id[1]].deletedAt # None)
       => /\ Started.pc = "done"
          /\ Started.ret[1] = NotFound
          /\ Started.acc.idxSet = 0 /\ Started.acc.txSet = 0
          /\ idxStorage' = idxStorage
          /\ txStorage' = txStorage]_vars

\* C6's case: update has just failed NotFound on a soft-deleted document.
C6_Witness ==
    /\ Settled("update")
    /\ settled[1].ret[1] = NotFound
    /\ settled[1].id[1] \in DOMAIN idxStorage
    /\ idxStorage[settled[1].id[1]].deletedAt # None

C8_DeletedStaysDeleted ==
    [][\A id \in DOMAIN idxStorage :
          idxStorage[id].deletedAt # None => idxStorage'[id].deletedAt # None]_vars

\* Another call is still working on transaction k.
InFlight(k) == \E p \in Procs : frame[p].txId = Some(k)

\* C9: when the second of two updates of one document that read the same
\* index entry has written the index, the log holds both transactions, each
\* revising the latestTxId they read; of the two only the second writer's
\* is reachable from the stored latestTxId, and the stored materializedView
\* is the second writer's data.
C9_LostUpdate ==
    Succeeded("update") =>
        LET f    == settled[1]
            id   == f.id[1]
            mine == f.txId[1]
            head == idxStorage[id].latestTxId
        IN  \A k \in DOMAIN txStorage \ {mine} :
                (/\ txStorage[k].type = Update
                 /\ txStorage[k].revisesId = Some(f.idx[1].latestTxId)
                 /\ ~InFlight(k))
                => /\ mine \in DOMAIN txStorage
                   /\ txStorage[mine].revisesId = Some(f.idx[1].latestTxId)
                   /\ head = mine
                   /\ mine \in ReachableFrom(head)
                   /\ k \notin ReachableFrom(head)
                   /\ idxStorage[id].materializedView = JsonStringify(f.data[1])

\* C9's case: the second of two updates that read the same entry has
\* returned, with data other than the first's.
C9_Witness ==
    /\ Succeeded("update")
    /\ \E k \in DOMAIN txStorage \ {settled[1].txId[1]} :
           /\ txStorage[k].type = Update
           /\ txStorage[k].revisesId = Some(settled[1].idx[1].latestTxId)
           /\ ~InFlight(k)
           /\ txStorage[k].diff # settled[1].diff[1]

\* The identifier shapes of the spec: a document id is a UUID, a transaction
\* id is <timestamp>:<uuid>.
WellFormedDocId(id) == Len(id) = 1 /\ id[1][1] = "uuid"
WellFormedTxId(id) == Len(id) = 2 /\ id[1][1] = "num" /\ id[2][1] = "uuid"

\* C10: a call given a malformed identifier fails InvalidIdentifier and
\* makes no store access (showAll: none for the malformed id).
C10_MalformedIdNeverReachesStores ==
    /\ \A op \in ShowFirst :
           (Settled(op) /\ ~WellFormedDocId(settled[1].id[1])) =>
               settled[1].ret[1] = InvalidIdentifier /\ settled[1].acc = NoAccess
    /\ (Settled("showTx") /\ ~WellFormedTxId(settled[1].id[1])) =>
           settled[1].ret[1] = InvalidIdentifier /\ settled[1].acc = NoAccess
    /\ (Settled("showAll")
            /\ \E i \in 1..Len(settled[1].ids) : ~WellFormedDocId(settled[1].ids[i])) =>
           /\ settled[1].ret[1] = InvalidIdentifier
           /\ settled[1].acc.idxGet
                  <= Cardinality({i \in 1..Len(settled[1].ids) :
                                      WellFormedDocId(settled[1].ids[i])})
           /\ settled[1].acc.idxSet = 0
           /\ settled[1].acc.txGet = 0 /\ settled[1].acc.txSet = 0

\* C11: an update that fails after it has read the index entry has issued
\* no index write, and the step at which it fails leaves the index as it
\* was; the index write is update's last step: it is made only once the
\* transaction is in the log, it writes the complete next entry, and the
\* call then returns.
C11_FailedUpdateLeavesIndex ==
    [][/\ (/\ settled' # None
            /\ settled'[1].op = "update"
            /\ settled'[1].idx # None
            /\ ~settled'[1].ret[1].ok)
           => /\ idxStorage' = idxStorage
              /\ settled'[1].acc.idxSet = 0
              /\ settled'[1].nidx = None
       /\ \A p \in Procs :
              (frame[p].op = "update" /\ frame'[p] # frame[p]
                                        /\ idxStorage' # idxStorage) =>
                  LET f == frame[p]
                  IN  /\ f.pc = "update_set"
                      /\ f.txId[1] \in DOMAIN txStorage
                      /\ txStorage[f.txId[1]] = UpdateTxRecord(f.txId[1],
                             txStorage[f.idx[1].latestTxId], f.diff[1],
                             f.idx[1].latestTxId, txStorage[f.txId[1]].timestamp)
                      /\ f.nidx[1].materializedView = JsonStringify(f.data[1])
                      /\ idxStorage' = StorageSet(idxStorage, f.id[1], f.nidx[1])
                      /\ settled' # None /\ settled'[1].ret[1].ok]_vars

\* C11's case: an update has failed after its show returned a live entry,
\* on a document whose view is not the data it was given.
C11_Witness ==
    /\ Settled("update")
    /\ ~settled[1].ret[1].ok
    /\ settled[1].idx # None
    /\ settled[1].idx[1].materializedView # JsonStringify(settled[1].data[1])
    /\ idxStorage[settled[1].id[1]] = settled[1].idx[1]

\* The spec's name for the error of a walk that meets a cycle or a link to
\* nothing.
CorruptChain == Err("CorruptChain")

\* The ids of the links a walk has read so far.
Visited(f) == {f.chain[i].id : i \in 1..Len(f.chain)}

C14_AbsentTransactionFails ==
    /\ (/\ Settled("showTx")
        /\ WellFormedTxId(settled[1].id[1])
        /\ settled[1].id[1] \notin DOMAIN txStorage)
           => settled[1].ret[1] = NotFound
    /\ (/\ Settled("getTxChain")
        /\ settled[1].cur # None
        /\ settled[1].cur[1] \notin DOMAIN txStorage)
           => settled[1].ret[1] = CorruptChain

\* The spec's name for the failure of an operation that is not implemented.
NotImplemented == Err("NotImplemented")

\* C15: destroyTx(id) never reports success: for every id it fails as
\* not implemented, and it leaves the log unchanged.
C15_DestroyTxNotImplemented ==
    [][(settled' # None /\ settled'[1].op = "destroyTx")
          => /\ ~settled'[1].ret[1].ok
             /\ settled'[1].ret[1] = NotImplemented
             /\ txStorage' = txStorage]_vars

\* C16: every transaction of the log, written by create or by update, is
\* stored under an id of the form <timestamp>:<uuid>; so every key of the
\* log and every latestTxId of the index passes readTransaction's validation
\* and readTransaction on it returns the transaction stored under it.
C16_TxIdsAreTimestamped ==
    /\ \A k \in DOMAIN txStorage :
           /\ WellFormedTxId(k)
           /\ txStorage[k].id = k
           /\ ReadTransaction(k) = Ok(Some(txStorage[k]))
    /\ \A id \in DOMAIN idxStorage :
           LET k == idxStorage[id].latestTxId
           IN  /\ WellFormedTxId(k)
               /\ k \in DOMAIN txStorage
               /\ ReadTransaction(k) = Ok(Some(txStorage[k]))

\* C17: in every state and under every interleaving of create, update and
\* destroy, the materializedView of every index entry, live or deleted, is
\* what the diffs of its chain give when applied in order to the empty
\* text, from the root to the transaction latestTxId names.
C17_ViewIsReplayOfChain ==
    \A id \in DOMAIN idxStorage :
        LET chain == ChainOf(idxStorage[id].latestTxId)
        IN  /\ chain # <<>>
            /\ chain[1].revisesId = None
            /\ chain[Len(chain)].id = idxStorage[id].latestTxId
            /\ idxStorage[id].materializedView # False
            /\ idxStorage[id].materializedView = Replay(<<>>, chain)

\* C17's case: the second of two concurrent updates of one document has
\* written the index; its diff removes and adds lines and differs from the
\* other update's.
C17_Witness ==
    /\ Succeeded("update")
    /\ LET f == settled[1]
       IN  /\ Len(ChainOf(idxStorage[f.id[1]].latestTxId)) = 2
           /\ f.diff[1].del # <<>> /\ f.diff[1].add # <<>>
           /\ \E k \in DOMAIN txStorage \ {f.txId[1]} :
                  /\ txStorage[k].type = Update
                  /\ txStorage[k].revisesId = Some(f.idx[1].latestTxId)
                  /\ txStorage[k].diff # f.diff[1]

\* C18: the log is append-only: a record stored under an id is there, with
\* the same fields, in every later state; no step of any operation removes
\* or overwrites a record; and a step that changes the log is the log write
\* of a create or an update, which adds one record under a key that was not
\* in the log.
C18_LogAppendOnly ==
    [][/\ \A k \in DOMAIN txStorage :
              k \in DOMAIN txStorage' /\ txStorage'[k] = txStorage[k]
       /\ txStorage' # txStorage =>
              \E p \in Procs :
                  LET f == frame[p]
                  IN  /\ f.op \in {"create", "update"}
                      /\ f.pc \in {"createTx_set", "updateTx_set"}
                      /\ f.txId[1] \notin DOMAIN txStorage
                      /\ txStorage' = StorageSet(txStorage, f.txId[1], f.tx[1])
                      /\ DOMAIN txStorage' = DOMAIN txStorage \cup {f.txId[1]}]_vars

\* C18's case: the log holds a create's and an update's record, and
\* destroyTx has just returned for one of them.
C18_Witness ==
    /\ Settled("destroyTx")
    /\ settled[1].id[1] \in DOMAIN txStorage
    /\ \E k \in DOMAIN txStorage : txStorage[k].type = Update
    /\ \E k \in DOMAIN txStorage : txStorage[k].type = Create

\* C19: in every state, for every transaction of the log, orphaned and
\* lost-update ones included: the revisesId links from it end, without
\* passing a transaction twice, at a root with revisesId = null and
\* type = Create; its revisesId is null iff its type is Create; its
\* revisesId, if any, names a transaction of the log; and every transaction
\* on the way has its staticId.
C19_ChainsWellFormed ==
    \A k \in DOMAIN txStorage :
        LET tx    == txStorage[k]
            chain == ChainOf(k)
        IN  /\ chain # <<>>
            /\ chain[1].revisesId = None /\ chain[1].type = Create
            /\ chain[Len(chain)] = tx
            /\ Cardinality({chain[i].id : i \in 1..Len(chain)}) = Len(chain)
            /\ (tx.revisesId = None) <=> (tx.type = Create)
            /\ tx.revisesId # None => tx.revisesId[1] \in DOMAIN txStorage
            /\ \A i \in 1..Len(chain) : chain[i].staticId = tx.staticId

\* C19's case: the log holds a root and two settled updates that revise
\* it, one of them referenced by no index entry.
C19_Witness ==
    /\ Cardinality({k \in DOMAIN txStorage : txStorage[k].type = Create}) >= 1
    /\ \E k, j \in DOMAIN txStorage :
           /\ k # j
           /\ txStorage[k].type = Update /\ txStorage[j].type = Update
           /\ txStorage[k].revisesId = txStorage[j].revisesId
           /\ \A id \in DOMAIN idxStorage : idxStorage[id].latestTxId # k
           /\ ~InFlight(k) /\ ~InFlight(j)

\* C20: writes go log-then-index: in every state, those between the two
\* writes of a create or an update and those after a crash between them
\* included, the latestTxId of every index entry, and of every index entry
\* a create or an update is about to write, names a transaction that is in
\* the log and whose staticId is the entry's id.  A crash between the two
\* writes leaves at most log transactions no index entry references.
C20_LogThenIndex ==
    /\ \A id \in DOMAIN idxStorage :
           /\ idxStorage[id].id = id
           /\ idxStorage[id].latestTxId \in DOMAIN txStorage
           /\ txStorage[idxStorage[id].latestTxId].staticId = id
    /\ \A p \in Procs :
           (frame[p].op \in {"create", "update"} /\ frame[p].nidx # None) =>
               /\ frame[p].nidx[1].latestTxId \in DOMAIN txStorage
               /\ txStorage[frame[p].nidx[1].latestTxId].staticId = frame[p].nidx[1].id

\* C20's case: after a crash between the two writes of a create and of an
\* update: no call is in flight, the log holds the root of a document the
\* index does not know, and an update no index entry references.
C20_Witness ==
    /\ \A p \in Procs : Free(p)
    /\ \E k \in DOMAIN txStorage :
           /\ txStorage[k].type = Create
           /\ txStorage[k].staticId \notin DOMAIN idxStorage
    /\ \E k \in DOMAIN txStorage :
           /\ txStorage[k].type = Update
           /\ \A id \in DOMAIN idxStorage : idxStorage[id].latestTxId # k

====
